---- MODULE Spec2Model ----
(***************************************************************************)
(* A model of the PittAPI client functions in pittapi/course.py and        *)
(* pittapi/gym.py.  Every function of the library is a pure operator of    *)
(* its arguments and of the responses the upstream endpoints give; one     *)
(* action per function records a single invocation: its arguments, the     *)
(* requests it issued (with the responses received) and how it ended.      *)
(*                                                                         *)
(* Python strings the code inspects character by character (terms, course  *)
(* numbers, the gym text segments) are sequences of one-character strings; *)
(* strings the code only copies or compares whole are TLA+ strings.        *)
(***************************************************************************)
EXTENDS Integers, Sequences, FiniteSets, TLC

VARIABLES op, args, outcome, requests

vars == <<op, args, outcome, requests>>

(***************************************************************************)
(* Python values                                                           *)
(***************************************************************************)

\* Optional[T]: None is the empty set, a present value x is {x}.
None == {}
Some(x) == {x}

\* A str or an int argument (Union[str, int]).
PyStr(s) == [type |-> "str", v |-> s]
PyInt(n) == [type |-> "int", v |-> n]

\* How a call ends: a return value, or a raised exception (msg says which).
Return(v) == [kind |-> "return", exc |-> "", value |-> v]
Raise(e, msg) == [kind |-> "raise", exc |-> e, value |-> msg]

\* A function that talks to the network: its outcome and the exchanges
\* (url, response) it made, in order.
Res(out, reqs) == [out |-> out, reqs |-> reqs]
Exchange(url, response) == [url |-> url, response |-> response]

Digits == {"0", "1", "2", "3", "4", "5", "6", "7", "8", "9"}

DigitChar(d) == <<"0", "1", "2", "3", "4", "5", "6", "7", "8", "9">>[d + 1]

DigitValue(c) == CHOOSE d \in 0..9 : DigitChar(d) = c

RECURSIVE NatToStr(_)
NatToStr(n) ==
    IF n < 10 THEN <<DigitChar(n)>>
    ELSE NatToStr(n \div 10) \o <<DigitChar(n % 10)>>

\* str(x) of a str is the str itself, of an int its decimal numeral.
str(x) ==
    IF x.type = "str" THEN x.v
    ELSE IF x.v < 0 THEN <<"-">> \o NatToStr(-x.v) ELSE NatToStr(x.v)

\* str.isdigit(): non-empty and every character a digit.
isdigit(s) == Len(s) > 0 /\ \A i \in 1..Len(s) : s[i] \in Digits

\* "0" * n
RECURSIVE Zeros(_)
Zeros(n) == IF n <= 0 THEN <<>> ELSE <<"0">> \o Zeros(n - 1)

\* All sequences over S of length at most n.
RECURSIVE SeqsUpTo(_, _)
SeqsUpTo(S, n) ==
    IF n = 0 THEN {<<>>}
    ELSE LET shorter == SeqsUpTo(S, n - 1)
         IN  shorter \cup {Append(s, x) : s \in {t \in shorter : Len(t) = n - 1}, x \in S}

InSeq(x, s) == \E i \in 1..Len(s) : s[i] = x

(***************************************************************************)
(* course.py: validation of method inputs                                  *)
(***************************************************************************)

\* VALID_TERMS.match(s) for TERM_REGEX = "2\d\d[147]": re.match anchors the
\* pattern at the start of s only.
VALID_TERMS_match(s) ==
    /\ Len(s) >= 4
    /\ s[1] = "2"
    /\ s[2] \in Digits
    /\ s[3] \in Digits
    /\ s[4] \in {"1", "4", "7"}

_validate_term(term) ==
    IF VALID_TERMS_match(str(term)) THEN Return(str(term))
    ELSE Raise("ValueError", "term")

\* A variant that pads to a width of 3.
_validate_course_pad3(course) ==
    IF course.type = "str" /\ course.v = <<>> THEN Raise("ValueError", "course_empty")
    ELSE IF course.type = "str" /\ ~isdigit(course.v) THEN Raise("ValueError", "course_not_number")
    ELSE IF course.type = "int" /\ course.v <= 0 THEN Raise("ValueError", "course_not_positive")
    ELSE LET course_length == Len(str(course))
         IN  IF course_length < 3 THEN Return(Zeros(3 - course_length) \o str(course))
             ELSE IF course_length > 4 THEN Raise("ValueError", "course_length")
             ELSE Return(str(course))

_validate_course(course) ==
    IF course.type = "str" /\ course.v = <<>> THEN Raise("ValueError", "course_empty")
    ELSE IF course.type = "str" /\ ~isdigit(course.v) THEN Raise("ValueError", "course_not_number")
    ELSE IF course.type = "int" /\ course.v <= 0 THEN Raise("ValueError", "course_not_positive")
    ELSE LET course_length == Len(str(course))
         IN  IF course_length < 4 THEN Return(Zeros(4 - course_length) \o str(course))
             ELSE IF course_length > 4 THEN Raise("ValueError", "course_length")
             ELSE Return(str(course))

(***************************************************************************)
(* course.py: peoplesoft api calls.  net holds the response each endpoint  *)
(* gives during the call; a request is logged with the response received.  *)
(***************************************************************************)

SUBJECTS_API == "IScript_CatalogSubjects"
SUBJECT_COURSES_API == "IScript_SubjectCourses"
COURSE_DETAIL_API == "IScript_CatalogCourseDetails"
COURSE_SECTIONS_API == "IScript_BrowseSections"
SECTION_DETAILS_API == "IScript_ClassDetails"

\* Sequencing with exception propagation: run K on r's value unless r raised.
Bind(r, K(_)) ==
    LET first == r
    IN  IF first.out.kind = "raise" THEN first
        ELSE LET rest == K(first.out.value)
             IN  Res(rest.out, first.reqs \o rest.reqs)

\* A step that makes no request.
Local(out) == Res(out, <<>>)

_get_subjects(net) ==
    Res(Return(net.subjects), <<Exchange(SUBJECTS_API, net.subjects)>>)

_get_subject_courses(subject, net) ==
    Res(Return(net.subject_courses), <<Exchange(SUBJECT_COURSES_API, net.subject_courses)>>)

_get_course_info(course_id, net) ==
    LET response == net.course_info
        sent == <<Exchange(COURSE_DETAIL_API, response)>>
    IN  IF DOMAIN response.course_details = {}
        THEN Res(Raise("ValueError", "course_info"), sent)
        ELSE Res(Return(response), sent)

_get_course_sections(course_id, term, net) ==
    LET response == net.course_sections
        sent == <<Exchange(COURSE_SECTIONS_API, response)>>
    IN  IF Len(response.sections) = 0
        THEN Res(Raise("ValueError", "course_sections"), sent)
        ELSE Res(Return(response), sent)

_get_section_details(term, section_id, net) ==
    LET response == net.section_details
        sent == <<Exchange(SECTION_DETAILS_API, response)>>
    IN  IF "error" \in DOMAIN response
        THEN Res(Raise("ValueError", "section"), sent)
        ELSE Res(Return(response), sent)

(***************************************************************************)
(* course.py: operations from api calls                                    *)
(***************************************************************************)

\* A variant that reads the subject list without fetching it.
_get_subject_codes_unfetched(net) ==
    Local(Return([i \in 1..Len(net.subjects.subjects) |-> net.subjects.subjects[i].subject]))

_get_subject_codes(net) ==
    Bind(_get_subjects(net), LAMBDA response :
        Local(Return([i \in 1..Len(response.subjects) |-> response.subjects[i].subject])))

_validate_subject(subject, net) ==
    Bind(_get_subject_codes(net), LAMBDA codes :
        IF InSeq(subject, codes) THEN Local(Return(subject))
        ELSE Local(Raise("ValueError", "subject")))

\* The loop of _get_internal_id_dict from entry i on: a catalog_nbr already
\* in the dict keeps its id.
RECURSIVE internal_id_dict_from(_, _, _)
internal_id_dict_from(courses, i, internal_id_dict) ==
    IF i > Len(courses) THEN internal_id_dict
    ELSE internal_id_dict_from(courses, i + 1,
            IF courses[i].catalog_nbr \in DOMAIN internal_id_dict
            THEN internal_id_dict
            ELSE internal_id_dict @@ (courses[i].catalog_nbr :> courses[i].crse_id))

_get_internal_id_dict(subject, net) ==
    Bind(_get_subject_courses(subject, net), LAMBDA response :
        Local(Return(internal_id_dict_from(response.courses, 1, <<>>))))

_get_course_id(subject, course, net) ==
    Bind(_get_internal_id_dict(subject, net), LAMBDA subject_dict :
        IF course \notin DOMAIN subject_dict
        THEN Local(Raise("ValueError", "course_not_listed"))
        ELSE Local(Return(subject_dict[course])))

(***************************************************************************)
(* course.py: the records and the public operations                        *)
(***************************************************************************)

Instructor(name, email) == [name |-> name, email |-> email]

Meeting(days, start_time, end_time, start_date, end_date, instructors) ==
    [days |-> days, start_time |-> start_time, end_time |-> end_time,
     start_date |-> start_date, end_date |-> end_date, instructors |-> instructors]

Course(subject_code, course_number, course_id, course_title, course_description, credit_range, requisites, components, attributes, sections) ==
    [subject_code |-> subject_code, course_number |-> course_number,
     course_id |-> course_id, course_title |-> course_title,
     course_description |-> course_description, credit_range |-> credit_range,
     requisites |-> requisites, components |-> components,
     attributes |-> attributes, sections |-> sections]

\* The dict comprehension of get_subject_courses from entry i on: a later
\* entry with the same key replaces the earlier one.
RECURSIVE subject_courses_from(_, _, _, _)
subject_courses_from(subject, courses, i, dict) ==
    IF i > Len(courses) THEN dict
    ELSE subject_courses_from(subject, courses, i + 1,
            (courses[i].catalog_nbr :>
                Course(subject, courses[i].catalog_nbr, courses[i].crse_id,
                       courses[i].descr, None, None, None, None, None, None))
            @@ dict)

get_subject_courses(subject, net) ==
    Bind(_validate_subject(subject, net), LAMBDA subject_s :
    Bind(_get_subject_courses(subject_s, net), LAMBDA json_response :
        Local(Return([subject_code |-> subject_s,
                      courses |-> subject_courses_from(subject_s, json_response.courses, 1, <<>>)]))))

\* An entry of a section's instructors array: a bare JSON string (text), or
\* an object with the keys name and email.
JStr(s) == [json |-> "string", text |-> s, name |-> "", email |-> ""]
JObj(name, email) == [json |-> "object", text |-> "", name |-> name, email |-> email]

\* A variant with the required flag inverted.
ComponentOf_inverted(component) ==
    [component |-> component.descr, required |-> component.optional # "N"]

ComponentOf(component) ==
    [component |-> component.descr, required |-> component.optional = "N"]

AttributeOf(attribute) ==
    [attribute |-> attribute.crse_attribute,
     attribute_description |-> attribute.crse_attribute_descr,
     attribute_value |-> attribute.crse_attribute_value,
     attribute_value_description |-> attribute.crse_attribute_value_descr]

\* [Instructor(name=i["name"], email=i["email"]) for i in entries]:
\* indexing a bare string with "name" is a TypeError.
InstructorsOf(entries) ==
    IF \E i \in 1..Len(entries) : entries[i].json # "object"
    THEN Raise("TypeError", "string indices must be integers")
    ELSE Return(Some([i \in 1..Len(entries) |->
                        Instructor(entries[i].name, Some(entries[i].email))]))

\* The instructors argument of a Section of get_course_details.
SectionInstructors(section) ==
    IF /\ Len(section.instructors) # 0
       /\ ~(section.instructors[1].json = "string"
            /\ section.instructors[1].text = "To be Announced")
    THEN InstructorsOf(section.instructors)
    ELSE Return(None)

SectionMeetings(section) ==
    IF Len(section.meetings) # 0
    THEN Some([i \in 1..Len(section.meetings) |->
                LET meeting == section.meetings[i]
                IN  Meeting(meeting.days, meeting.start_time, meeting.end_time,
                            meeting.start_dt, meeting.end_dt,
                            Some(<<Instructor(meeting.instructor, None)>>))])
    ELSE None

\* One Section of the sections comprehension of get_course_details.
SectionOf(term, section) ==
    LET instructors == SectionInstructors(section)
    IN  IF instructors.kind = "raise" THEN instructors
        ELSE Return([term |-> term,
                     session |-> section.session,
                     section_number |-> section.class_section,
                     class_number |-> str(PyInt(section.class_nbr)),
                     section_type |-> section.section_type,
                     status |-> section.enrl_stat_descr,
                     instructors |-> instructors.value,
                     meetings |-> SectionMeetings(section),
                     details |-> None])

\* The Course(...) expression of get_course_details.
CourseDetails(term, subject, course, internal_course_id, json_response, json_response_details) ==
    LET sections == [i \in 1..Len(json_response_details.sections) |->
                        SectionOf(term, json_response_details.sections[i])]
    IN  IF \E i \in 1..Len(sections) : sections[i].kind = "raise"
        THEN sections[CHOOSE i \in 1..Len(sections) :
                        /\ sections[i].kind = "raise"
                        /\ \A j \in 1..(i - 1) : sections[j].kind # "raise"]
        ELSE Return(Course(
                subject, course, internal_course_id,
                json_response_details.sections[1].descr,
                Some(json_response.descrlong),
                Some(<<json_response.units_minimum, json_response.units_maximum>>),
                IF /\ "offerings" \in DOMAIN json_response
                   /\ Len(json_response.offerings) # 0
                   /\ "req_group" \in DOMAIN json_response.offerings[1]
                THEN Some(json_response.offerings[1].req_group) ELSE None,
                IF "components" \in DOMAIN json_response /\ Len(json_response.components) # 0
                THEN Some([i \in 1..Len(json_response.components) |->
                            ComponentOf(json_response.components[i])])
                ELSE None,
                IF "attributes" \in DOMAIN json_response /\ Len(json_response.attributes) # 0
                THEN Some([i \in 1..Len(json_response.attributes) |->
                            AttributeOf(json_response.attributes[i])])
                ELSE None,
                Some([i \in 1..Len(sections) |-> sections[i].value])))

get_course_details(term, subject, course, net) ==
    Bind(Local(_validate_term(term)), LAMBDA term_s :
    Bind(_validate_subject(subject, net), LAMBDA subject_s :
    Bind(Local(_validate_course(course)), LAMBDA course_s :
    Bind(_get_course_id(subject_s, course_s, net), LAMBDA internal_course_id :
    Bind(_get_course_info(internal_course_id, net), LAMBDA info :
    Bind(_get_course_sections(internal_course_id, term_s, net), LAMBDA json_response_details :
        Local(CourseDetails(term_s, subject_s, course_s, internal_course_id,
                            info.course_details, json_response_details))))))))

\* The instructors argument of a Meeting of get_section_details.
MeetingInstructors(meeting) ==
    IF /\ Len(meeting.instructors) # 0
       /\ meeting.instructors[1].name \notin {"To be Announced", "-"}
    THEN Some([i \in 1..Len(meeting.instructors) |->
                Instructor(meeting.instructors[i].name, Some(meeting.instructors[i].email))])
    ELSE None

\* The Section(...) expression of get_section_details.
SectionDetailsOf(term, section_number, json_response) ==
    LET details == json_response.section_info.class_details
        meetings == json_response.section_info.meetings
        enrollment == json_response.section_info.class_availability
    IN  [term |-> term,
         session |-> details.session,
         section_number |-> details.class_section,
         class_number |-> str(section_number),
         section_type |-> details.component,
         status |-> details.status,
         instructors |-> None,
         meetings |->
            IF Len(meetings) # 0
            THEN Some([i \in 1..Len(meetings) |->
                        Meeting(meetings[i].stnd_mtg_pat, meetings[i].meeting_time_start,
                                meetings[i].meeting_time_end, meetings[i].start_date,
                                meetings[i].end_date, MeetingInstructors(meetings[i]))])
            ELSE None,
         details |-> Some(
            [units |-> details.units,
             class_capacity |-> enrollment.class_capacity,
             enrollment_total |-> enrollment.enrollment_total,
             enrollment_available |-> str(PyInt(enrollment.enrollment_available)),
             wait_list_capacity |-> enrollment.wait_list_capacity,
             wait_list_total |-> enrollment.wait_list_total,
             valid_to_enroll |-> json_response.section_info.valid_to_enroll,
             combined_section_numbers |->
                IF json_response.section_info.is_combined
                THEN Some([i \in 1..Len(json_response.section_info.combined_sections) |->
                            json_response.section_info.combined_sections[i].class_nbr])
                ELSE None])]

get_section_details(term, section_number, net) ==
    Bind(Local(_validate_term(term)), LAMBDA term_s :
    Bind(_get_section_details(term_s, section_number, net), LAMBDA json_response :
        Local(Return(SectionDetailsOf(term_s, section_number, json_response)))))

(***************************************************************************)
(* gym.py.  A text is a sequence of characters; a facility name, a label   *)
(* or a timestamp, which the code only copies and compares whole, is one   *)
(* token standing for its characters (none of them "|").                   *)
(***************************************************************************)

GYM_URL == "connect2concepts.com/connect2"

Gym(name, date, count, percentage) ==
    [name |-> name, date |-> date, count |-> count, percentage |-> percentage]

GYM_Names ==
    {<<"Baierl Rec Center">>,
     <<"Bellefield Hall: Fitness Center & Weight Room">>,
     <<"Bellefield Hall: Court & Dance Studio">>,
     <<"Trees Hall: Fitness Center">>,
     <<"Trees Hall: Courts">>,
     <<"Trees Hall: Racquetball Courts & Multipurpose Room">>,
     <<"William Pitt Union">>,
     <<"Pitt Sports Dome">>}

\* gym.get_text("|", strip=True): the fragment's text segments joined by "|".
RECURSIVE get_text(_)
get_text(segments) ==
    IF Len(segments) = 0 THEN <<>>
    ELSE IF Len(segments) = 1 THEN segments[1]
    ELSE segments[1] \o <<"|">> \o get_text(Tail(segments))

\* text.split("|")
RECURSIVE split_from(_, _, _)
split_from(text, i, field) ==
    IF i > Len(text) THEN <<field>>
    ELSE IF text[i] = "|" THEN <<field>> \o split_from(text, i + 1, <<>>)
    ELSE split_from(text, i + 1, Append(field, text[i]))

split(text) == split_from(text, 1, <<>>)

\* s[n:]
SliceFrom(s, n) == IF n >= Len(s) THEN <<>> ELSE SubSeq(s, n + 1, Len(s))

\* s.rstrip("%")
RECURSIVE rstrip_percent(_)
rstrip_percent(s) ==
    IF Len(s) > 0 /\ s[Len(s)] = "%" THEN rstrip_percent(SubSeq(s, 1, Len(s) - 1)) ELSE s

RECURSIVE DecimalValue(_)
DecimalValue(s) ==
    IF Len(s) = 0 THEN 0
    ELSE 10 * DecimalValue(SubSeq(s, 1, Len(s) - 1)) + DigitValue(s[Len(s)])

\* int(s) of a text: an optional sign and decimal digits, else ValueError.
int(s) ==
    IF Len(s) > 0 /\ s[1] \in {"+", "-"}
    THEN IF isdigit(Tail(s))
         THEN Return(IF s[1] = "-" THEN -DecimalValue(Tail(s)) ELSE DecimalValue(Tail(s)))
         ELSE Raise("ValueError", "invalid literal for int()")
    ELSE IF isdigit(s) THEN Return(DecimalValue(s))
         ELSE Raise("ValueError", "invalid literal for int()")

\* The body of the loop of get_all_gyms_info for one barChart fragment.
GymOf(gym) ==
    LET text == get_text(gym)
        info == split(text)
    IN  IF Len(info) < 3 THEN Raise("IndexError", "list index out of range")
        ELSE LET name == info[1]
                 count == int(SliceFrom(info[3], 12))
             IN  IF count.kind = "raise" THEN count
                 ELSE IF Len(info) < 4 THEN Raise("IndexError", "list index out of range")
                 ELSE LET date == SliceFrom(info[4], 9)
                      IN  IF Len(info) < 5
                          THEN Raise("IndexError", "list index out of range")
                          ELSE LET parsed == int(rstrip_percent(info[5]))
                                   percentage == IF parsed.kind = "raise" /\ parsed.exc = "ValueError"
                                                 THEN 0 ELSE parsed.value
                               IN  Return(Gym(name, date, count.value, percentage))

\* page is the list of barChart fragments of the fetched document, each the
\* list of its stripped text segments.
get_all_gyms_info(page) ==
    LET gyms == [i \in 1..Len(page) |-> GymOf(page[i])]
        sent == <<Exchange(GYM_URL, page)>>
    IN  IF \E i \in 1..Len(gyms) : gyms[i].kind = "raise"
        THEN Res(gyms[CHOOSE i \in 1..Len(gyms) :
                        /\ gyms[i].kind = "raise"
                        /\ \A j \in 1..(i - 1) : gyms[j].kind # "raise"], sent)
        ELSE Res(Return([i \in 1..Len(gyms) |-> gyms[i].value]), sent)

get_gym_information(gym_name, page) ==
    Bind(get_all_gyms_info(page), LAMBDA info :
        IF gym_name \in GYM_Names
        THEN IF \E i \in 1..Len(info) : info[i].name = gym_name
             THEN Local(Return(Some(info[CHOOSE i \in 1..Len(info) :
                                        /\ info[i].name = gym_name
                                        /\ \A j \in 1..(i - 1) : info[j].name # gym_name])))
             ELSE Local(Return(None))
        ELSE Local(Return(None)))

(***************************************************************************)
(* Inputs                                                                  *)
(***************************************************************************)

MaxTermLen == 5
MaxTermInt == 2300
MaxCourseLen == 5
MaxCourseInt == 10050
MaxNegative == 3

TermChars == {"2", "0", "3", "1", "a"}
CourseChars == {"0", "7", "a"}

\* The terms named as examples, as strings and as integers.
TermExamples ==
    {PyStr(<<"2", "0", "2", "3", "1">>), PyStr(<<"2", "0", "2", "3", "2">>),
     PyStr(<<"9", "9", "9">>), PyStr(<<"2", "2", "3", "1">>),
     PyStr(<<"2", "2", "4", "4">>), PyStr(<<"2", "2", "4", "7">>),
     PyInt(20231), PyInt(20232), PyInt(22314), PyInt(999)}

TermInputs ==
    {PyStr(s) : s \in SeqsUpTo(TermChars, MaxTermLen)}
        \cup {PyInt(n) : n \in (-MaxNegative)..MaxTermInt}
        \cup TermExamples

CourseInputs ==
    {PyStr(s) : s \in SeqsUpTo(CourseChars, MaxCourseLen)}
        \cup {PyInt(n) : n \in (-MaxNegative)..MaxCourseInt}

\* Arguments of the public course operations.
Terms ==
    {PyStr(<<"2", "2", "3", "1">>), PyStr(<<"2", "2", "3", "2">>), PyInt(2237)}

Subjects == {"CS", "XX"}

Courses ==
    {PyStr(<<"7">>), PyInt(7), PyStr(<<>>), PyStr(<<"x">>), PyInt(0),
     PyStr(<<"0", "0", "0", "0", "7">>)}

SectionNumbers == {PyInt(1001), PyStr(<<"1", "0", "0", "1">>)}

\* Responses of the subject list endpoint.
SubjectsResponses ==
    {[subjects |-> <<>>],
     [subjects |-> <<[subject |-> "MATH"], [subject |-> "CS"]>>]}

\* Responses of the subject-courses endpoint: up to MaxCourses entries,
\* catalog numbers repeated or not.
MaxCourses == 2

CourseEntries ==
    {[catalog_nbr |-> <<"0", "0", "0", "7">>, crse_id |-> "105611", descr |-> "INTRO"],
     [catalog_nbr |-> <<"0", "0", "0", "7">>, crse_id |-> "105999", descr |-> "INTRO (OLD)"],
     [catalog_nbr |-> <<"0", "0", "0", "8">>, crse_id |-> "105612", descr |-> "SCRIPTING"]}

SubjectCoursesResponses ==
    {[courses |-> c] : c \in SeqsUpTo(CourseEntries, MaxCourses)}

\* Responses of the course-detail endpoint: the empty object, an object
\* without the optional keys, and objects with every key.
MaxComponents == 2

ComponentEntries ==
    {[descr |-> "Lecture", optional |-> "N"], [descr |-> "Recitation", optional |-> "Y"]}

AttributeEntries ==
    {[crse_attribute |-> "DSAS", crse_attribute_descr |-> "Gen Ed",
      crse_attribute_value |-> "QFR", crse_attribute_value_descr |-> "Quantitative"]}

OfferingsValues ==
    {<<>>, <<[req_group |-> "PREQ: MATH 0031"]>>, <<[acad_career |-> "UGRD"]>>}

CourseInfo(offerings, components, attributes) ==
    [course_details |->
        [descrlong |-> "An introduction", units_minimum |-> 3, units_maximum |-> 4,
         offerings |-> offerings, components |-> components, attributes |-> attributes]]

\* Each optional array is varied with the other two as in a plain course.
CourseInfoResponses ==
    LET o0 == <<[req_group |-> "PREQ: MATH 0031"]>>
        c0 == <<[descr |-> "Lecture", optional |-> "N"]>>
        a0 == SeqsUpTo(AttributeEntries, 1)
    IN  {[course_details |-> <<>>],
         [course_details |-> [descrlong |-> "An introduction", units_minimum |-> 3, units_maximum |-> 3]]}
        \cup {CourseInfo(o, c0, a) : o \in OfferingsValues, a \in a0}
        \cup {CourseInfo(o0, c, a) : c \in SeqsUpTo(ComponentEntries, MaxComponents), a \in a0}

\* Responses of the course-sections endpoint: no section, one section, or a
\* section followed by a plain second one.
MaxInstructors == 2

InstructorEntries ==
    {JStr("To be Announced"),
     JObj("Ada Lovelace", "ada@pitt.edu")}

MeetingEntry ==
    [days |-> "MoWe", start_time |-> "09.00", end_time |-> "09.50",
     start_dt |-> "08/28", end_dt |-> "12/08", instructor |-> "Ada Lovelace"]

BrowseSection(class_nbr, instructors, meetings) ==
    [descr |-> "INTRO TO PROGRAMMING", session |-> "AT", class_section |-> "1010",
     class_nbr |-> class_nbr, section_type |-> "LEC", enrl_stat_descr |-> "Open",
     instructors |-> instructors, meetings |-> meetings]

\* The instructors array is varied in a section with a meeting; a section
\* without meetings has no instructor or one.
SectionEntries ==
    {BrowseSection(1001, i, <<MeetingEntry>>) : i \in SeqsUpTo(InstructorEntries, MaxInstructors)}
        \cup {BrowseSection(1001, i, <<>>) : i \in SeqsUpTo(InstructorEntries, 1)}

SecondSection ==
    BrowseSection(1002, <<JObj("Alan Turing", "alan@pitt.edu")>>, <<>>)

CourseSectionsResponses ==
    {[sections |-> <<>>]}
        \cup {[sections |-> <<s>>] : s \in SectionEntries}
        \cup {[sections |-> <<s, SecondSection>>] : s \in SectionEntries}

\* Responses of the section-detail endpoint.
MaxCombined == 2

DetailInstructors ==
    {[name |-> "To be Announced", email |-> ""], [name |-> "-", email |-> ""],
     [name |-> "Ada Lovelace", email |-> "ada@pitt.edu"]}

DetailMeeting(instructors) ==
    [stnd_mtg_pat |-> "MoWe", meeting_time_start |-> "09.00", meeting_time_end |-> "09.50",
     start_date |-> "08/28", end_date |-> "12/08", instructors |-> instructors]

DetailMeetings ==
    {<<>>}
        \cup {<<DetailMeeting(i)>> : i \in SeqsUpTo(DetailInstructors, MaxInstructors)}
        \cup {<<DetailMeeting(i), DetailMeeting(<<>>)>> : i \in SeqsUpTo(DetailInstructors, MaxInstructors)}

SectionDetailsResponses ==
    {[error |-> "not found"]}
    \cup
    {[section_info |->
        [class_details |-> [session |-> "AT", class_section |-> "1010", component |-> "LEC",
                            status |-> "Open", units |-> "3"],
         meetings |-> m,
         class_availability |-> [class_capacity |-> "30", enrollment_total |-> "12",
                                 enrollment_available |-> 18, wait_list_capacity |-> "5",
                                 wait_list_total |-> "0"],
         valid_to_enroll |-> "T",
         is_combined |-> b,
         combined_sections |-> c]] :
        m \in DetailMeetings,
        b \in BOOLEAN,
        c \in SeqsUpTo({[class_nbr |-> "1002"], [class_nbr |-> "1003"]}, MaxCombined)}

\* The gym page: up to MaxFragments barChart fragments.  A fragment has the
\* segments name, label, count, timestamp and percentage; the percentage
\* segment may be malformed, and may be missing.
MaxFragments == 2

FragmentNames == {<<"Baierl Rec Center">>, <<"William Pitt Union">>, <<"Unknown Hall">>}

LastCount == <<"L", "a", "s", "t", " ", "C", "o", "u", "n", "t", ":", " ">>
Updated == <<"U", "p", "d", "a", "t", "e", "d", ":", " ">>

CountTexts == {<<"1", "0", "0">>}
PercentageTexts == {<<"5", "0", "%">>, <<"N", "/", "A", "%">>, <<"%">>}

Fragments ==
    {<<n, <<"Open">>, LastCount \o c, Updated \o <<"07/09/2024 09:05 AM">>, p>> :
        n \in FragmentNames, c \in CountTexts, p \in PercentageTexts}
    \cup
    {<<n, <<"Open">>, LastCount \o c, Updated \o <<"07/09/2024 09:05 AM">>>> :
        n \in FragmentNames, c \in CountTexts}

Pages == SeqsUpTo(Fragments, MaxFragments)

GymQueries == FragmentNames \cup {<<"Pitt Sports Dome">>}

(***************************************************************************)
(* Actions: one invocation of a function from the idle state               *)
(***************************************************************************)

Init ==
    /\ op = "idle"
    /\ args = <<>>
    /\ outcome = Return(None)
    /\ requests = <<>>

Call_validate_term ==
    /\ op = "idle"
    /\ \E term \in TermInputs :
        /\ op' = "_validate_term"
        /\ args' = [term |-> term]
        /\ outcome' = _validate_term(term)
        /\ requests' = <<>>

Call_validate_course ==
    /\ op = "idle"
    /\ \E course \in CourseInputs :
        /\ op' = "_validate_course"
        /\ args' = [course |-> course]
        /\ outcome' = _validate_course(course)
        /\ requests' = <<>>

Call_get_course_id ==
    /\ op = "idle"
    /\ \E subject \in Subjects, course \in {r.catalog_nbr : r \in CourseEntries},
          courses \in SubjectCoursesResponses :
        LET r == _get_course_id(subject, course, [subject_courses |-> courses])
        IN  /\ op' = "_get_course_id"
            /\ args' = [subject |-> subject, course |-> course]
            /\ outcome' = r.out
            /\ requests' = r.reqs

Call_get_subject_courses ==
    /\ op = "idle"
    /\ \E subject \in Subjects, subjects \in SubjectsResponses,
          courses \in SubjectCoursesResponses :
        LET r == get_subject_courses(subject,
                    [subjects |-> subjects, subject_courses |-> courses])
        IN  /\ op' = "get_subject_courses"
            /\ args' = [subject |-> subject]
            /\ outcome' = r.out
            /\ requests' = r.reqs

\* The responses drawn before the call asks for them.
DefaultNet ==
    [subjects |-> CHOOSE r \in SubjectsResponses : TRUE,
     subject_courses |-> CHOOSE r \in SubjectCoursesResponses : TRUE,
     course_info |-> CHOOSE r \in CourseInfoResponses : TRUE,
     course_sections |-> CHOOSE r \in CourseSectionsResponses : TRUE]

\* The number of requests get_course_details makes when the endpoints answer net.
RequestsMade(term, subject, course, net) ==
    Len(get_course_details(term, subject, course, net).reqs)

\* One get_course_details call against the responses net.
CourseDetailsCall(term, subject, course, net) ==
    LET r == get_course_details(term, subject, course, net)
    IN  /\ op' = "get_course_details"
        /\ args' = [term |-> term, subject |-> subject, course |-> course]
        /\ outcome' = r.out
        /\ requests' = r.reqs

\* The responses are drawn as the call asks for them: the k-th response is
\* varied only when the call, given the earlier ones, makes a k-th request.
Call_get_course_details ==
    /\ op = "idle"
    /\ \E term \in Terms, subject \in Subjects, course \in Courses :
        \E r1 \in SubjectsResponses :
            LET n1 == [DefaultNet EXCEPT !.subjects = r1]
            IN  IF RequestsMade(term, subject, course, n1) < 2
                THEN CourseDetailsCall(term, subject, course, n1)
                ELSE \E r2 \in SubjectCoursesResponses :
                    LET n2 == [n1 EXCEPT !.subject_courses = r2]
                    IN  IF RequestsMade(term, subject, course, n2) < 3
                        THEN CourseDetailsCall(term, subject, course, n2)
                        ELSE \E r3 \in CourseInfoResponses :
                            LET n3 == [n2 EXCEPT !.course_info = r3]
                            IN  IF RequestsMade(term, subject, course, n3) < 4
                                THEN CourseDetailsCall(term, subject, course, n3)
                                ELSE \E r4 \in CourseSectionsResponses :
                                    CourseDetailsCall(term, subject, course,
                                        [n3 EXCEPT !.course_sections = r4])

Call_get_section_details ==
    /\ op = "idle"
    /\ \E term \in Terms, section_number \in SectionNumbers,
          details \in SectionDetailsResponses :
        LET r == get_section_details(term, section_number, [section_details |-> details])
        IN  /\ op' = "get_section_details"
            /\ args' = [term |-> term, section_number |-> section_number]
            /\ outcome' = r.out
            /\ requests' = r.reqs

Call_get_all_gyms_info ==
    /\ op = "idle"
    /\ \E page \in Pages :
        LET r == get_all_gyms_info(page)
        IN  /\ op' = "get_all_gyms_info"
            /\ args' = <<>>
            /\ outcome' = r.out
            /\ requests' = r.reqs

Call_get_gym_information ==
    /\ op = "idle"
    /\ \E gym_name \in GymQueries, page \in Pages :
        LET r == get_gym_information(gym_name, page)
        IN  /\ op' = "get_gym_information"
            /\ args' = [gym_name |-> gym_name]
            /\ outcome' = r.out
            /\ requests' = r.reqs

Next ==
    \/ Call_validate_term
    \/ Call_validate_course
    \/ Call_get_course_id
    \/ Call_get_subject_courses
    \/ Call_get_course_details
    \/ Call_get_section_details
    \/ Call_get_all_gyms_info
    \/ Call_get_gym_information

Spec == Init /\ [][Next]_vars

(***************************************************************************)
(* Properties                                                              *)
(***************************************************************************)

\* The value of a present Optional.
Get(opt) == CHOOSE x \in opt : TRUE

\* The call ended and returned a value.
Returned(name) == op = name /\ outcome.kind = "return"

\* The call ended with the invalid-input error (a ValueError).
InvalidInput == outcome.kind = "raise" /\ outcome.exc = "ValueError"

\* The urls of the requests of the call, in order.
Urls == [i \in 1..Len(requests) |-> requests[i].url]

\* A course argument that is malformed in a way visible without the network.
MalformedCourse(c) ==
    \/ c.type = "str" /\ ~isdigit(c.v)
    \/ c.type = "int" /\ c.v <= 0
    \/ Len(str(c)) > 4

\* C1 (as claimed): a get_course_details call whose term does not match the
\* term pattern, or whose course number is malformed, raises the invalid-input
\* error without having made any request.
C1_InvalidInputBeforeAnyRequest ==
    op = "get_course_details"
        /\ (~VALID_TERMS_match(str(args.term)) \/ MalformedCourse(args.course))
    => InvalidInput /\ requests = <<>>

\* An Optional list is None or holds a non-empty list.
NoneOrNonEmpty(opt) == opt = None \/ Len(Get(opt)) > 0

MeetingsWellFormed(meetings) ==
    /\ NoneOrNonEmpty(meetings)
    /\ meetings # None =>
        \A i \in 1..Len(Get(meetings)) : NoneOrNonEmpty(Get(meetings)[i].instructors)

\* C2 (as claimed): no record returned by get_course_details or by
\* get_section_details holds an empty list in an optional list field, and
\* combined_section_numbers is None when the combined_sections array is empty.
C2_NoEmptyOptionalList ==
    /\ Returned("get_course_details") =>
        LET c == outcome.value
        IN  /\ NoneOrNonEmpty(c.components)
            /\ NoneOrNonEmpty(c.attributes)
            /\ NoneOrNonEmpty(c.sections)
            /\ \A i \in 1..Len(Get(c.sections)) :
                /\ NoneOrNonEmpty(Get(c.sections)[i].instructors)
                /\ MeetingsWellFormed(Get(c.sections)[i].meetings)
    /\ Returned("get_section_details") =>
        LET s == outcome.value
            source == requests[1].response.section_info
        IN  /\ NoneOrNonEmpty(s.instructors)
            /\ MeetingsWellFormed(s.meetings)
            /\ NoneOrNonEmpty(Get(s.details).combined_section_numbers)
            /\ Len(source.combined_sections) = 0 =>
                Get(s.details).combined_section_numbers = None

\* C3: _validate_course returns the 4-character zero-padded numeral of every
\* integer in 1..9999 and of every digit string of 1 to 4 characters, raises
\* the invalid-input error for every other integer, for the empty string, for
\* a string with a non-digit and for a digit string longer than 4, and never
\* returns a value whose length is not 4.
C3_ValidateCourse ==
    op = "_validate_course" =>
        LET c == args.course
        IN  /\ c.type = "int" /\ c.v >= 1 /\ c.v <= 9999 =>
                /\ outcome.kind = "return"
                /\ Len(outcome.value) = 4
                /\ isdigit(outcome.value)
                /\ DecimalValue(outcome.value) = c.v
            /\ c.type = "int" /\ (c.v <= 0 \/ c.v > 9999) => InvalidInput
            /\ c.type = "str" /\ ~isdigit(c.v) => InvalidInput
            /\ c.type = "str" /\ isdigit(c.v) /\ Len(c.v) <= 4 =>
                /\ outcome.kind = "return"
                /\ Len(outcome.value) = 4
                /\ \A i \in 1..(4 - Len(c.v)) : outcome.value[i] = "0"
                /\ SubSeq(outcome.value, 5 - Len(c.v), 4) = c.v
            /\ c.type = "str" /\ isdigit(c.v) /\ Len(c.v) > 4 => InvalidInput
            /\ outcome.kind = "return" => Len(outcome.value) = 4

\* C3 witness: the integer 7 and the string "07" were both padded to "0007",
\* seen here for the integer.
C3_Witness ==
    /\ op = "_validate_course"
    /\ args.course.type = "int"
    /\ args.course.v = 7
    /\ outcome = Return(<<"0", "0", "0", "7">>)

\* C4 (as claimed): _validate_term accepts a term, returning its string form,
\* exactly when the string form has 4 characters: "2", two digits, and one of
\* 1, 4, 7; every other input raises the invalid-input error.
C4_TermAcceptedIffFourChars ==
    op = "_validate_term" =>
        LET s == str(args.term)
            wellFormed == /\ Len(s) = 4
                          /\ s[1] = "2"
                          /\ s[2] \in Digits
                          /\ s[3] \in Digits
                          /\ s[4] \in {"1", "4", "7"}
        IN  IF wellFormed THEN outcome = Return(s) ELSE InvalidInput

\* The first entry of a course list numbered n.
FirstNumbered(courses, n) ==
    courses[CHOOSE i \in 1..Len(courses) :
                /\ courses[i].catalog_nbr = n
                /\ \A j \in 1..(i - 1) : courses[j].catalog_nbr # n]

\* C5 (as claimed): of several entries with the same catalog_nbr the first is
\* kept, by _get_course_id (not-found when there is none) and in the Subject
\* of get_subject_courses alike.
C5_FirstOccurrenceWins ==
    /\ op = "_get_course_id" =>
        LET courses == requests[1].response.courses
        IN  IF \E i \in 1..Len(courses) : courses[i].catalog_nbr = args.course
            THEN outcome = Return(FirstNumbered(courses, args.course).crse_id)
            ELSE InvalidInput
    /\ Returned("get_subject_courses") =>
        LET courses == requests[2].response.courses
            subject == outcome.value
        IN  /\ DOMAIN subject.courses = {courses[i].catalog_nbr : i \in 1..Len(courses)}
            /\ \A n \in DOMAIN subject.courses :
                /\ subject.courses[n].course_id = FirstNumbered(courses, n).crse_id
                /\ subject.courses[n].course_title = FirstNumbered(courses, n).descr
                /\ subject.courses[n].course_id =
                        _get_course_id(subject.subject_code, n,
                                       [subject_courses |-> requests[2].response]).out.value

\* C6 (as claimed): in a returned Course, a Section's instructors is None when
\* the source array is empty or its only entry is "To be Announced", is the
\* one-element list of the instructor when the array holds one named
\* instructor, and is not suppressed when the array has several entries, a
\* named instructor among them.
C6_SectionInstructors ==
    Returned("get_course_details") =>
        LET source == requests[4].response.sections
            sections == Get(outcome.value.sections)
        IN  \A i \in 1..Len(source) :
                LET entries == source[i].instructors
                    instructors == sections[i].instructors
                IN  /\ Len(entries) = 0 => instructors = None
                    /\ Len(entries) = 1 /\ entries[1] = JStr("To be Announced") =>
                            instructors = None
                    /\ Len(entries) = 1 /\ entries[1].json = "object" =>
                            instructors =
                                Some(<<Instructor(entries[1].name, Some(entries[1].email))>>)
                    /\ Len(entries) > 1 /\ (\E k \in 1..Len(entries) : entries[k].json = "object") =>
                            instructors # None

\* The components of a returned Course against the components array they
\* were built from: same length, same order, component = descr, and the
\* required flag as required(optional marker) says.
ComponentsBuilt(required(_)) ==
    Returned("get_course_details") =>
        LET details == requests[3].response.course_details
            source == IF "components" \in DOMAIN details THEN details.components ELSE <<>>
            components == outcome.value.components
        IN  IF Len(source) = 0 THEN components = None
            ELSE /\ components # None
                 /\ Len(Get(components)) = Len(source)
                 /\ \A i \in 1..Len(source) :
                        /\ Get(components)[i].component = source[i].descr
                        /\ Get(components)[i].required = required(source[i].optional)

\* C7 (as claimed): required = (optional-marker != 'N').
C7_RequiredIffNotN == ComponentsBuilt(LAMBDA optional : optional # "N")

\* C7 (amended): every Component built by get_course_details has
\* required = (optional-marker == 'N').
C7_RequiredIffN == ComponentsBuilt(LAMBDA optional : optional = "N")

\* C7 witness: a Course was returned whose components array holds an entry
\* marked 'N' and an entry marked 'Y'.
C7_Witness ==
    /\ Returned("get_course_details")
    /\ "components" \in DOMAIN requests[3].response.course_details
    /\ \E i, j \in 1..Len(requests[3].response.course_details.components) :
        /\ requests[3].response.course_details.components[i].optional = "N"
        /\ requests[3].response.course_details.components[j].optional = "Y"

PublicOperations ==
    {"get_subject_courses", "get_course_details", "get_section_details",
     "get_all_gyms_info", "get_gym_information"}

\* C8 (as claimed): a public operation that completes successfully has made
\* between 1 and 3 requests, get_subject_courses exactly one.
C8_OneToThreeRequests ==
    op \in PublicOperations /\ outcome.kind = "return" =>
        /\ Len(requests) >= 1
        /\ Len(requests) <= 3
        /\ op = "get_subject_courses" => Len(requests) = 1

\* C8 (amended): a public operation that completes successfully has made
\* between 1 and 4 requests: get_subject_courses exactly two (the subject
\* list, then the subject's courses), get_course_details exactly four (the
\* subject list, the subject's courses, the course detail, the sections),
\* and get_section_details, get_all_gyms_info and get_gym_information one.
C8_OneToFourRequests ==
    op \in PublicOperations /\ outcome.kind = "return" =>
        /\ Len(requests) >= 1
        /\ Len(requests) <= 4
        /\ op = "get_subject_courses" => Urls = <<SUBJECTS_API, SUBJECT_COURSES_API>>
        /\ op = "get_course_details" =>
            Urls = <<SUBJECTS_API, SUBJECT_COURSES_API, COURSE_DETAIL_API, COURSE_SECTIONS_API>>
        /\ op = "get_section_details" => Urls = <<SECTION_DETAILS_API>>
        /\ op \in {"get_all_gyms_info", "get_gym_information"} => Urls = <<GYM_URL>>

\* C8 witness: a get_course_details call returned a Course after four requests.
C8_Witness == Returned("get_course_details") /\ Len(requests) = 4

\* The percentage of a fragment: the integer before '%' of its fifth segment,
\* 0 when that segment is malformed or missing.
ExpectedPercentage(fragment) ==
    IF Len(fragment) >= 5 /\ isdigit(rstrip_percent(fragment[5]))
    THEN DecimalValue(rstrip_percent(fragment[5]))
    ELSE 0

\* C9 (as claimed): get_all_gyms_info returns one Gym per barChart fragment,
\* in document order, with percentage 0 for a fragment whose percentage
\* segment is malformed or missing.
C9_OneGymPerFragment ==
    op = "get_all_gyms_info" =>
        LET page == requests[1].response
        IN  /\ outcome.kind = "return"
            /\ Len(outcome.value) = Len(page)
            /\ \A i \in 1..Len(page) :
                /\ outcome.value[i].name = page[i][1]
                /\ outcome.value[i].percentage = ExpectedPercentage(page[i])

\* C10 (as claimed): get_gym_information makes exactly one request; it
\* returns None for a name outside the roster, whatever was fetched, and for
\* a roster name the first fetched record with that name, None if there is
\* none.
C10_GymInformation ==
    op = "get_gym_information" =>
        LET page == requests[1].response
            named == {i \in 1..Len(page) : page[i][1] = args.gym_name}
        IN  /\ Len(requests) = 1
            /\ outcome.kind = "return"
            /\ args.gym_name \notin GYM_Names => outcome.value = None
            /\ args.gym_name \in GYM_Names /\ named = {} => outcome.value = None
            /\ args.gym_name \in GYM_Names /\ named # {} =>
                LET first == CHOOSE i \in named : \A j \in named : i <= j
                IN  /\ outcome.value # None
                    /\ Get(outcome.value).name = args.gym_name
                    /\ Get(outcome.value).percentage = ExpectedPercentage(page[first])

====
